---- MODULE Spec2Model ----
(***************************************************************************)
(* A model of zenithview's Display class (src/src/zenithview/display.py):  *)
(* the session object, its public operations update, preprocess, pause and *)
(* release, and the environment they read: the pygame tick clock and the   *)
(* pygame event queue.                                                     *)
(*                                                                         *)
(* Display is single threaded.  An operation that blocks (pause, hold) is  *)
(* split at its blocking poll of the event queue; everything else an       *)
(* operation does between two polls is one action.                         *)
(***************************************************************************)
EXTENDS Integers, Sequences, FiniteSets, TLC

(***************************************************************************)
(* Bounds of the model.                                                    *)
(***************************************************************************)
MaxTime == 202       \* the tick clock stops advancing here
MaxEvents == 2       \* longest pending event queue
MaxCalls == 2        \* calls of the public operations per session
MaxArrayLen == 8     \* longest array length thickness() is asked about
MaxSamples == 3      \* largest sample count an envelope is computed for

(***************************************************************************)
(* Program constants.                                                      *)
(***************************************************************************)
ThrottleMs == 100    \* display.py:254
MinSize == 10        \* display.py:100-105
NormFloorDiv == 10   \* display.py:507   tmin = height / 10
NormCeilSub == 12    \* display.py:508   tmax = height - 12

(***************************************************************************)
(* Inputs.                                                                 *)
(***************************************************************************)
\* constructor arguments <<width, height, sonification, updateFactor, allowPause>>
Configs == {<<12, 20, TRUE, 1, TRUE>>, <<5, 5, FALSE, 2, FALSE>>}
\* arrays the caller passes: empty, one bar, a repeated value, values above
\* the height (normalized by update), all values equal and above the height
Arrays == {<<>>, <<3>>, <<3, 3>>, <<3, 25>>, <<25, 25>>}
Delays == {100, 101}                     \* amounts by which time advances
EventTypes == {"QUIT", "K_SPACE"}        \* window close, KEYDOWN of the space key
Keys == {"K_SPACE", "K_OTHER"}           \* keys pause() can be bound to

None == <<>>
Some(x) == <<x>>
IsSome(o) == o # <<>>
Get(o) == o[1]

VARIABLES
    width, height,        \* self.width, self.height (after the clamp)
    sonification,         \* self.sonification
    updateFactor,         \* self.updateFactor
    allowPause,           \* self.allowPause
    null,                 \* self.null: the released flag
    finishTime,           \* self.finishTime: None or Some(number)
    start,                \* self.start
    it,                   \* self.it: the iteration counter
    last_update_time,     \* self.last_update_time
    arraySnapshot,        \* self.arraySnapshot: None or Some(array)
    lenWarn,              \* self.lenWarn
    cache,                \* self.cache: value -> thickness the surface was made with
    preprocessed,         \* self.preprocessed: value -> waveform
    outputOpen,           \* the audio stream self.output is open
    pc,                   \* where the caller's thread is
    frame,                \* locals of an operation blocked in pause()/hold()
    clock,                \* pygame.time.get_ticks() / time.perf_counter()
    events,               \* the pygame event queue
    pygameUp,             \* FALSE once pygame.quit() has run
    calls,                \* calls made so far, per operation
    synthCount,           \* value -> number of sinewave() runs for it
    allocCount,           \* value -> number of Surface allocations for it
    paceCalls,            \* number of self.clock.tick() calls
    warnings,             \* number of 'array length' warnings logged (line 228)
    last                  \* the last call: what it did, logged, drew and played

vars == <<width, height, sonification, updateFactor, allowPause, null, finishTime,
          start, it, last_update_time, arraySnapshot, lenWarn, cache, preprocessed,
          outputOpen, pc, frame, clock, events, pygameUp, calls, synthCount,
          allocCount, paceCalls, warnings, last>>

----------------------------------------------------------------------------
(***************************************************************************)
(* Small helpers.                                                          *)
(***************************************************************************)
Min2(a, b) == IF a <= b THEN a ELSE b
Range(s) == {s[i] : i \in 1..Len(s)}
SeqMax(s) == CHOOSE m \in Range(s) : \A x \in Range(s) : x <= m
SeqMin(s) == CHOOSE m \in Range(s) : \A x \in Range(s) : m <= x
Reverse(s) == [i \in 1..Len(s) |-> s[Len(s) + 1 - i]]
Put(f, k, v) == [x \in (DOMAIN f) \cup {k} |-> IF x = k THEN v ELSE f[x]]
Count(f, k) == IF k \in DOMAIN f THEN f[k] ELSE 0
Bump(f, k) == Put(f, k, Count(f, k) + 1)
EmptyMap == [x \in {} |-> 0]
TotalCalls == calls.update + calls.preprocess + calls.release + calls.pause

\* the record of a call: the operation, how it ended, what it drew, flashed
\* (highlighted) and wrote to the audio stream, and for update the tick it
\* read at line 224 (0 for the other operations), its arguments where a
\* property needs them and the value it returned
Call(op, outcome) ==
    [op |-> op, outcome |-> outcome, at |-> 0, drawn |-> <<>>, flashed |-> <<>>,
     played |-> <<>>, arg |-> <<>>, ret |-> <<>>]
UCall(outcome) == [Call("update", outcome) EXCEPT !.at = clock]

----------------------------------------------------------------------------
(***************************************************************************)
(* Display.__init__                                                        *)
(***************************************************************************)
Clamp_Identity(n) == n

\* lines 100-105: a size below the minimum is replaced by the minimum
Clamp(n) == IF n < MinSize THEN MinSize ELSE n

\* the session Display(width = c[1], height = c[2], sonification = c[3],
\* updateFactor = c[4], allowPause = c[5]) as __init__ leaves it
Construct(c) ==
    /\ width = Clamp(c[1])
    /\ height = Clamp(c[2])
    /\ sonification = c[3]
    /\ updateFactor = c[4]
    /\ allowPause = c[5]
    /\ last = [Call("init", "ok") EXCEPT !.arg = <<c[1], c[2]>>]
    /\ null = FALSE
    /\ finishTime = None
    /\ clock = 0
    /\ start = 0
    /\ it = 0
    /\ last_update_time = 0
    /\ arraySnapshot = None
    /\ lenWarn = FALSE
    /\ cache = EmptyMap
    /\ preprocessed = EmptyMap
    /\ outputOpen = TRUE
    /\ pc = "idle"
    /\ frame = None
    /\ events = <<>>
    /\ pygameUp = TRUE
    /\ calls = [update |-> 0, preprocess |-> 0, release |-> 0, pause |-> 0]
    /\ synthCount = EmptyMap
    /\ allocCount = EmptyMap
    /\ paceCalls = 0
    /\ warnings = 0

Init == \E c \in Configs : Construct(c)

----------------------------------------------------------------------------
(***************************************************************************)
(* The environment: time passes, the user presses keys or closes the       *)
(* window.                                                                 *)
(***************************************************************************)
Advance(d) ==
    /\ pc # "exited"
    /\ clock + d <= MaxTime
    /\ clock' = clock + d
    /\ UNCHANGED <<warnings, width, height, sonification, updateFactor, allowPause, null,
                   finishTime, start, it, last_update_time, arraySnapshot, lenWarn,
                   cache, preprocessed, outputOpen, pc, frame, events, pygameUp,
                   calls, synthCount, allocCount, paceCalls, last>>

Post(ev) ==
    /\ pc # "exited"
    /\ pygameUp
    /\ Len(events) < MaxEvents
    /\ events' = Append(events, ev)
    /\ UNCHANGED <<warnings, width, height, sonification, updateFactor, allowPause, null,
                   finishTime, start, it, last_update_time, arraySnapshot, lenWarn,
                   cache, preprocessed, outputOpen, pc, frame, clock, pygameUp,
                   calls, synthCount, allocCount, paceCalls, last>>

----------------------------------------------------------------------------
(***************************************************************************)
(* Display.sinewave: the waveform for a frequency.  The bytes are a        *)
(* function of the arguments.  preprocess passes the session's envelope,   *)
(* sample rate and amplitude (lines 444-453, configured); update and       *)
(* completeUpdate pass the duration and the frequency only (lines 244,     *)
(* 534), which leaves sinewave's own default envelope, rate and amplitude. *)
(* The sessions modelled are built with an envelope other than those       *)
(* defaults (attack = 0.05, say), so the two waveforms of a frequency are  *)
(* different bytes.                                                        *)
(***************************************************************************)
sinewave(frequency, configured) == [frequency |-> frequency, configured |-> configured]

(***************************************************************************)
(* Display.preprocess: every element of the array is synthesized with the  *)
(* session's envelope and stored, whether or not it is cached already;     *)
(* nothing is written to the audio stream; the value returned is           *)
(* self.preprocessed itself.  There is no test of self.null.               *)
(***************************************************************************)
RECURSIVE PreprocessLoop_SkipLast(_, _, _)
PreprocessLoop_SkipLast(array, i, acc) ==
    IF i >= Len(array) THEN acc
    ELSE PreprocessLoop_SkipLast(array, i + 1,
            [pre |-> Put(acc.pre, array[i], sinewave(array[i], TRUE)),
             synth |-> Bump(acc.synth, array[i])])

RECURSIVE PreprocessLoop(_, _, _)
PreprocessLoop(array, i, acc) ==
    IF i > Len(array) THEN acc
    ELSE PreprocessLoop(array, i + 1,
            [pre |-> Put(acc.pre, array[i], sinewave(array[i], TRUE)),
             synth |-> Bump(acc.synth, array[i])])

preprocess(array) ==
    /\ pc = "idle"
    /\ TotalCalls < MaxCalls
    /\ LET r == PreprocessLoop(array, 1, [pre |-> preprocessed, synth |-> synthCount])
       IN /\ preprocessed' = r.pre
          /\ synthCount' = r.synth
    /\ calls' = [calls EXCEPT !.preprocess = @ + 1]
    /\ last' = [Call("preprocess", "ok") EXCEPT
                    !.arg = array,
                    !.ret = PreprocessLoop(array, 1, [pre |-> preprocessed,
                                                      synth |-> synthCount]).pre]
    /\ UNCHANGED <<warnings, width, height, sonification, updateFactor, allowPause, null,
                   finishTime, start, it, last_update_time, arraySnapshot, lenWarn,
                   cache, outputOpen, pc, frame, clock, events, pygameUp,
                   allocCount, paceCalls>>


----------------------------------------------------------------------------
(***************************************************************************)
(* Display.thickness: int(self.width / arrayLen), arrayLen >= 1.           *)
(***************************************************************************)
thickness_Ceil(arrayLen) == (width + arrayLen - 1) \div arrayLen

thickness(arrayLen) == width \div arrayLen

(***************************************************************************)
(* Python's round() of the rational n / d, d > 0: to nearest, ties to the  *)
(* even integer.                                                           *)
(***************************************************************************)
PyRound(n, d) ==
    LET q == n \div d
        r == n % d
    IN IF 2 * r < d THEN q
       ELSE IF 2 * r > d THEN q + 1
       ELSE IF q % 2 = 0 THEN q ELSE q + 1

(***************************************************************************)
(* Display.normalize.  With tmin = height / 10 and tmax = height - 12,     *)
(*   (x - mn) / (mx - mn) * (tmax - tmin) + tmin                           *)
(*     = ((x - mn) * (10 * tmax - height) + height * (mx - mn))            *)
(*       / (10 * (mx - mn)).                                               *)
(* The division by old_max - old_min raises ZeroDivisionError when all     *)
(* elements are equal.  On the arrays of this model the float computation *)
(* of the code has no rounding error, so the rational form is exact.       *)
(***************************************************************************)
NormValue(x, mn, mx) ==
    PyRound((x - mn) * (NormFloorDiv * (height - NormCeilSub) - height) + height * (mx - mn),
            NormFloorDiv * (mx - mn))

normalize(list) ==
    LET old_min == SeqMin(list)
        old_max == SeqMax(list)
    IN IF old_max = old_min
       THEN [raised |-> TRUE, value |-> <<>>]
       ELSE [raised |-> FALSE,
             value |-> [i \in 1..Len(list) |-> NormValue(list[i], old_min, old_max)]]

(***************************************************************************)
(* update, lines 255-261: the array the redraw works on.  max() of an      *)
(* empty array raises ValueError.                                          *)
(***************************************************************************)
Prepare(array, invertArray) ==
    LET a == IF invertArray THEN Reverse(array) ELSE array
    IN IF Len(a) = 0 THEN [raised |-> TRUE, value |-> <<>>]
       ELSE IF SeqMax(a) > height THEN normalize(a)
       ELSE [raised |-> FALSE, value |-> a]

(***************************************************************************)
(* update, lines 267-274: the walk over the polled events.  It stops at    *)
(* the first QUIT (exit) or, with allowPause, the first space key (pause,  *)
(* after which the walk goes on with the rest).                            *)
(***************************************************************************)
RECURSIVE ProcessEvents_NoQuit(_)
ProcessEvents_NoQuit(evs) ==
    IF evs = <<>> THEN [kind |-> "done", rest |-> <<>>]
    ELSE IF Head(evs) = "K_SPACE" /\ allowPause THEN [kind |-> "pause", rest |-> Tail(evs)]
    ELSE ProcessEvents_NoQuit(Tail(evs))

RECURSIVE ProcessEvents(_)
ProcessEvents(evs) ==
    IF evs = <<>> THEN [kind |-> "done", rest |-> <<>>]
    ELSE IF Head(evs) = "QUIT" THEN [kind |-> "exit", rest |-> <<>>]
    ELSE IF Head(evs) = "K_SPACE" /\ allowPause THEN [kind |-> "pause", rest |-> Tail(evs)]
    ELSE ProcessEvents(Tail(evs))

(***************************************************************************)
(* update, lines 304-320 (and 327-343): the loop over zip(array, snapshot).*)
(* pendingData is a dict keyed by the VALUE e: a second changed element of *)
(* the same value replaces the entry's position and keeps its place.       *)
(* pygame.Surface raises on a negative size.                               *)
(***************************************************************************)
PendingPut(pending, e, pos) ==
    IF \E j \in 1..Len(pending) : pending[j].e = e
    THEN [j \in 1..Len(pending) |->
             IF pending[j].e = e THEN [e |-> e, pos |-> pos] ELSE pending[j]]
    ELSE Append(pending, [e |-> e, pos |-> pos])

RECURSIVE BarLoop(_, _, _, _, _)
BarLoop(array, snap, t, i, acc) ==
    IF i > Min2(Len(array), Len(snap)) THEN acc
    ELSE LET e == array[i]
             pos == <<(i - 1) * t, height - e>>
             miss == e \notin DOMAIN acc.cache
         IN IF miss /\ e < 0
            THEN [acc EXCEPT !.raised = TRUE]
            ELSE BarLoop(array, snap, t, i + 1,
                   [cache |-> IF miss THEN Put(acc.cache, e, t) ELSE acc.cache,
                    alloc |-> IF miss THEN Bump(acc.alloc, e) ELSE acc.alloc,
                    drawn |-> Append(acc.drawn, [e |-> e, pos |-> pos, t |-> IF miss THEN t ELSE acc.cache[e]]),
                    pending |-> IF e # snap[i] THEN PendingPut(acc.pending, e, pos)
                                ELSE acc.pending,
                    bar |-> Some(e),
                    raised |-> FALSE])

(***************************************************************************)
(* update.process, lines 231-252: flash every pending entry with the       *)
(* surface `bar` the loop above left behind, and with sound on write the   *)
(* entry's waveform, synthesizing it with sinewave's default envelope when *)
(* it is not cached.                                                       *)
(***************************************************************************)
RECURSIVE process_AlwaysSound(_, _, _, _, _)
process_AlwaysSound(pendingData, sound, bar, i, acc) ==
    IF i > Len(pendingData) THEN acc
    ELSE LET e == pendingData[i].e
             hit == e \in DOMAIN acc.pre
             nw == IF hit THEN acc.pre[e] ELSE sinewave(e, FALSE)
         IN process_AlwaysSound(pendingData, sound, bar, i + 1,
              [pre |-> IF ~hit THEN Put(acc.pre, e, nw) ELSE acc.pre,
               synth |-> IF ~hit THEN Bump(acc.synth, e) ELSE acc.synth,
               flashed |-> Append(acc.flashed, [e |-> e, pos |-> pendingData[i].pos, bar |-> Get(bar)]),
               played |-> Append(acc.played, nw)])

RECURSIVE process(_, _, _, _, _)
process(pendingData, sound, bar, i, acc) ==
    IF i > Len(pendingData) THEN acc
    ELSE LET e == pendingData[i].e
             hit == e \in DOMAIN acc.pre
             nw == IF hit THEN acc.pre[e] ELSE sinewave(e, FALSE)
         IN process(pendingData, sound, bar, i + 1,
              [pre |-> IF sound /\ ~hit THEN Put(acc.pre, e, nw) ELSE acc.pre,
               synth |-> IF sound /\ ~hit THEN Bump(acc.synth, e) ELSE acc.synth,
               flashed |-> Append(acc.flashed, [e |-> e, pos |-> pendingData[i].pos, bar |-> Get(bar)]),
               played |-> IF sound THEN Append(acc.played, nw) ELSE acc.played])

(***************************************************************************)
(* update, lines 301-348: the render of one executed redraw.               *)
(***************************************************************************)
Render(array, inverseDelta, snap) ==
    LET bars == BarLoop(array, snap, thickness(Len(array)), 1,
                        [cache |-> cache, alloc |-> allocCount, drawn |-> <<>>,
                         pending |-> <<>>, bar |-> None, raised |-> FALSE])
        pend == IF inverseDelta THEN Reverse(bars.pending) ELSE bars.pending
        snd == process(pend, sonification, bars.bar, 1,
                       [pre |-> preprocessed, synth |-> synthCount,
                        flashed |-> <<>>, played |-> <<>>])
    IN IF bars.raised
       THEN [raised |-> TRUE, cache |-> bars.cache, alloc |-> bars.alloc,
             pre |-> preprocessed, synth |-> synthCount,
             drawn |-> bars.drawn, flashed |-> <<>>, played |-> <<>>]
       ELSE [raised |-> FALSE, cache |-> bars.cache, alloc |-> bars.alloc,
             pre |-> snd.pre, synth |-> snd.synth,
             drawn |-> bars.drawn, flashed |-> snd.flashed, played |-> snd.played]

----------------------------------------------------------------------------
(***************************************************************************)
(* update from its event walk (line 267) to its end (line 349), for the    *)
(* events `rest` still to walk.  snap is self.arraySnapshot as the call    *)
(* found or set it (line 218).  This is also where update goes on when the *)
(* pause() it called returns.                                              *)
(***************************************************************************)
UCall0(at, outcome) == [Call("update", outcome) EXCEPT !.at = at]

Redraw(array, inverseDelta, rest, snap, at) ==
    LET pe == ProcessEvents(rest)
        r == Render(array, inverseDelta, snap)
    IN CASE pe.kind = "exit" ->
              \* pygame.quit(); exit(0)
              /\ pc' = "exited"
              /\ frame' = None
              /\ pygameUp' = FALSE
              /\ arraySnapshot' = Some(snap)
              /\ last' = UCall0(at, "exit")
              /\ UNCHANGED <<cache, allocCount, preprocessed, synthCount, paceCalls>>
         [] pe.kind = "pause" ->
              \* self.pause()
              /\ pc' = "pause"
              /\ frame' = Some([from |-> "update", bind |-> "K_SPACE", allowQuit |-> TRUE,
                                array |-> array, inverseDelta |-> inverseDelta,
                                rest |-> pe.rest])
              /\ arraySnapshot' = Some(snap)
              /\ last' = UCall0(at, "paused")
              /\ UNCHANGED <<pygameUp, cache, allocCount, preprocessed, synthCount,
                             paceCalls>>
         [] OTHER ->
              /\ pc' = "idle"
              /\ frame' = None
              /\ cache' = r.cache
              /\ allocCount' = r.alloc
              /\ preprocessed' = r.pre
              /\ synthCount' = r.synth
              /\ IF r.raised
                 THEN /\ arraySnapshot' = Some(snap)
                      /\ paceCalls' = paceCalls
                      /\ last' = [UCall0(at, "raised") EXCEPT !.drawn = r.drawn]
                 ELSE /\ arraySnapshot' = Some(array)
                      /\ paceCalls' = paceCalls + 1
                      /\ last' = [UCall0(at, "redraw") EXCEPT !.drawn = r.drawn,
                                     !.flashed = r.flashed, !.played = r.played]
              /\ UNCHANGED pygameUp

(***************************************************************************)
(* Display.update                                                          *)
(***************************************************************************)
Throttled_AtLeast(current_time) == ~(current_time - last_update_time >= ThrottleMs)

Throttled(current_time) == ~(current_time - last_update_time > ThrottleMs)

BumpIt_ByOne == it + 1

\* line 225: self.it += self.updateFactor
BumpIt == it + updateFactor

LenWarnDue_NoFlag(array) == Len(array) > width

\* line 227: len(array) > self.width and not self.lenWarn
LenWarnDue(array) == Len(array) > width /\ ~lenWarn

update(array, invertArray, inverseDelta) ==
    /\ pc = "idle"
    /\ TotalCalls < MaxCalls
    /\ calls' = [calls EXCEPT !.update = @ + 1]
    /\ IF null
       THEN \* lines 213-215: logged and refused
            /\ last' = UCall("rejected")
            /\ UNCHANGED <<it, last_update_time, arraySnapshot, lenWarn, warnings, cache,
                           preprocessed, pc, frame, events, pygameUp, synthCount,
                           allocCount, paceCalls>>
       ELSE LET snap == IF arraySnapshot = None THEN array ELSE Get(arraySnapshot)
                prep == Prepare(array, invertArray)
            IN /\ it' = BumpIt
               /\ IF LenWarnDue(array)
                  THEN \* lines 227-229: logged once, before the throttle test
                       /\ warnings' = warnings + 1
                       /\ lenWarn' = TRUE
                  ELSE UNCHANGED <<warnings, lenWarn>>
               /\ IF Throttled(clock)
                  THEN /\ arraySnapshot' = Some(array)
                       /\ last' = UCall("throttled")
                       /\ UNCHANGED <<last_update_time, cache, preprocessed, pc, frame,
                                      events, pygameUp, synthCount, allocCount, paceCalls>>
                  ELSE IF prep.raised
                  THEN /\ arraySnapshot' = Some(snap)
                       /\ last' = UCall("raised")
                       /\ UNCHANGED <<last_update_time, cache, preprocessed, pc, frame,
                                      events, pygameUp, synthCount, allocCount, paceCalls>>
                  ELSE /\ last_update_time' = clock
                       /\ events' = <<>>
                       /\ Redraw(prep.value, inverseDelta, events, snap, clock)
    /\ UNCHANGED <<width, height, sonification, updateFactor, allowPause, null,
                   finishTime, start, outputOpen, clock>>

(***************************************************************************)
(* Display.pause, called by the caller: up to the first poll.              *)
(***************************************************************************)
pause(bind, allowQuit) ==
    /\ pc = "idle"
    /\ TotalCalls < MaxCalls
    /\ calls' = [calls EXCEPT !.pause = @ + 1]
    /\ pc' = "pause"
    /\ frame' = Some([from |-> "caller", bind |-> bind, allowQuit |-> allowQuit,
                      array |-> <<>>, inverseDelta |-> FALSE, rest |-> <<>>])
    /\ last' = Call("pause", "paused")
    /\ UNCHANGED <<warnings, width, height, sonification, updateFactor, allowPause, null,
                   finishTime, start, it, last_update_time, arraySnapshot, lenWarn,
                   cache, preprocessed, outputOpen, clock, events, pygameUp,
                   synthCount, allocCount, paceCalls>>

(***************************************************************************)
(* pause, lines 484-493: one turn of the while loop over one polled batch. *)
(* A QUIT with allowQuit exits at once, wherever it stands in the batch    *)
(* after the events before it; the bound key only clears `paused`, which   *)
(* is looked at when the batch is done.                                    *)
(***************************************************************************)
RECURSIVE PauseWalk_AnyQuit(_, _, _, _)
PauseWalk_AnyQuit(batch, bind, allowQuit, paused) ==
    IF batch = <<>> THEN (IF paused THEN "stay" ELSE "return")
    ELSE IF Head(batch) = "QUIT" THEN "exit"
    ELSE PauseWalk_AnyQuit(Tail(batch), bind, allowQuit, paused /\ Head(batch) # bind)

RECURSIVE PauseWalk(_, _, _, _)
PauseWalk(batch, bind, allowQuit, paused) ==
    IF batch = <<>> THEN (IF paused THEN "stay" ELSE "return")
    ELSE IF Head(batch) = "QUIT" /\ allowQuit THEN "exit"
    ELSE PauseWalk(Tail(batch), bind, allowQuit, paused /\ Head(batch) # bind)

PausePoll ==
    /\ pc = "pause"
    /\ LET f == Get(frame)
           w == PauseWalk(events, f.bind, f.allowQuit, TRUE)
       IN IF ~pygameUp
          THEN \* pygame.event.get() raises pygame.error once pygame has quit
               /\ pc' = "idle"
               /\ frame' = None
               /\ last' = Call("pause", "raised")
               /\ UNCHANGED <<events, pygameUp, arraySnapshot, cache, allocCount,
                              preprocessed, synthCount, paceCalls>>
          ELSE /\ events' = <<>>
               /\ CASE w = "exit" ->
                         /\ pc' = "exited"
                         /\ frame' = None
                         /\ pygameUp' = FALSE
                         /\ last' = [last EXCEPT !.outcome = "exit"]
                         /\ UNCHANGED <<arraySnapshot, cache, allocCount, preprocessed,
                                        synthCount, paceCalls>>
                    [] w = "stay" ->
                         UNCHANGED <<pc, frame, pygameUp, last, arraySnapshot, cache,
                                     allocCount, preprocessed, synthCount, paceCalls>>
                    [] OTHER ->
                         IF f.from = "caller"
                         THEN /\ pc' = "idle"
                              /\ frame' = None
                              /\ last' = Call("pause", "returned")
                              /\ UNCHANGED <<pygameUp, arraySnapshot, cache, allocCount,
                                             preprocessed, synthCount, paceCalls>>
                         ELSE Redraw(f.array, f.inverseDelta, f.rest, Get(arraySnapshot), last.at)
    /\ UNCHANGED <<warnings, width, height, sonification, updateFactor, allowPause, null,
                   finishTime, start, it, last_update_time, lenWarn, outputOpen,
                   clock, calls>>

----------------------------------------------------------------------------
(***************************************************************************)
(* Display.completeUpdate: the final render.  The first loop draws every   *)
(* bar in green and, with sonification, plays its tone; the second loop    *)
(* walks the array again, from its first element, and draws it in white.   *)
(* thickness(0) divides by zero; blitting to the display surface raises    *)
(* pygame.error once pygame has quit.                                      *)
(***************************************************************************)
RECURSIVE FirstPass(_, _, _, _)
FirstPass(array, t, i, acc) ==
    IF i > Len(array) THEN acc
    ELSE LET e == array[i]
             miss == e \notin DOMAIN acc.cache
             c1 == IF miss THEN Put(acc.cache, e, t) ELSE acc.cache
             a1 == IF miss THEN Bump(acc.alloc, e) ELSE acc.alloc
             hit == e \in DOMAIN acc.pre
             nw == IF hit THEN acc.pre[e] ELSE sinewave(e, FALSE)
         IN IF miss /\ e < 0
            THEN [acc EXCEPT !.raised = TRUE]
            ELSE IF ~pygameUp
            THEN [acc EXCEPT !.raised = TRUE, !.cache = c1, !.alloc = a1]
            ELSE FirstPass(array, t, i + 1,
                   [cache |-> c1, alloc |-> a1,
                    pre |-> IF sonification /\ ~hit THEN Put(acc.pre, e, nw) ELSE acc.pre,
                    synth |-> IF sonification /\ ~hit THEN Bump(acc.synth, e) ELSE acc.synth,
                    drawn |-> Append(acc.drawn,
                                [e |-> e, pos |-> <<(i - 1) * t, height - e>>, t |-> c1[e]]),
                    played |-> IF sonification THEN Append(acc.played, nw) ELSE acc.played,
                    raised |-> FALSE])

SecondPass_Backward(array, t, c) ==
    [i \in 1..Len(array) |->
        LET k == Len(array) + 1 - i
        IN [e |-> array[k], pos |-> <<(k - 1) * t, height - array[k]>>, t |-> c[array[k]]]]

\* lines 540-554: the second loop, `for e in array` with r from 0 again
SecondPass(array, t, c) ==
    [i \in 1..Len(array) |->
        [e |-> array[i], pos |-> <<(i - 1) * t, height - array[i]>>, t |-> c[array[i]]]]

completeUpdate(array) ==
    LET acc0 == [cache |-> cache, alloc |-> allocCount, pre |-> preprocessed,
                 synth |-> synthCount, drawn |-> <<>>, played |-> <<>>, raised |-> FALSE]
    IN IF Len(array) = 0 THEN [acc0 EXCEPT !.raised = TRUE]
       ELSE LET t == thickness(Len(array))
                p1 == FirstPass(array, t, 1, acc0)
            IN IF p1.raised THEN p1
               ELSE [p1 EXCEPT !.drawn = p1.drawn \o SecondPass(array, t, p1.cache)]

(***************************************************************************)
(* Display.release, up to the first poll of hold().  lastArray is None or  *)
(* Some(array).  self.screen is a Surface in every constructed session, so *)
(* the guard of line 567 never refuses.                                    *)
(***************************************************************************)
release(lastArray, doUpdate, hold) ==
    /\ pc = "idle"
    /\ TotalCalls < MaxCalls
    /\ calls' = [calls EXCEPT !.release = @ + 1]
    /\ LET render == IsSome(lastArray) /\ doUpdate
           cu == IF render THEN completeUpdate(Get(lastArray))
                 ELSE [cache |-> cache, alloc |-> allocCount, pre |-> preprocessed,
                       synth |-> synthCount, drawn |-> <<>>, played |-> <<>>,
                       raised |-> FALSE]
           done == [Call("release", "returned") EXCEPT !.drawn = cu.drawn,
                                                       !.played = cu.played]
       IN /\ cache' = cu.cache
          /\ allocCount' = cu.alloc
          /\ preprocessed' = cu.pre
          /\ synthCount' = cu.synth
          /\ IF cu.raised
             THEN /\ last' = [done EXCEPT !.outcome = "raised"]
                  /\ UNCHANGED <<pc, frame>>
             ELSE IF hold
             THEN /\ pc' = "hold"
                  /\ frame' = Some([from |-> "release", bind |-> "QUIT", allowQuit |-> TRUE,
                                    array |-> <<>>, inverseDelta |-> FALSE, rest |-> <<>>])
                  /\ last' = [done EXCEPT !.outcome = "holding"]
             ELSE /\ last' = done
                  /\ UNCHANGED <<pc, frame>>
    /\ UNCHANGED <<warnings, width, height, sonification, updateFactor, allowPause, null,
                   finishTime, start, it, last_update_time, arraySnapshot, lenWarn,
                   outputOpen, clock, events, pygameUp, paceCalls>>

(***************************************************************************)
(* Display.hold, one turn of its loop, and lines 580-590 of release after  *)
(* it.  `del self.__dict__` goes through Display.__delattr__ (line 624),   *)
(* which only logs: no attribute is removed, nothing is closed.            *)
(***************************************************************************)
Teardown_NoFlag ==
    /\ finishTime' = Some(clock - start)
    /\ null' = null
    /\ UNCHANGED <<cache, preprocessed, outputOpen>>

Teardown ==
    /\ finishTime' = Some(clock - start)
    /\ null' = TRUE
    /\ UNCHANGED <<cache, preprocessed, outputOpen>>

HoldPoll ==
    /\ pc = "hold"
    /\ IF ~pygameUp
       THEN \* pygame.event.get() raises pygame.error once pygame has quit
            /\ pc' = "idle"
            /\ frame' = None
            /\ last' = [last EXCEPT !.outcome = "raised"]
            /\ UNCHANGED <<events, pygameUp, finishTime, null, cache, preprocessed,
                           outputOpen>>
       ELSE /\ events' = <<>>
            /\ IF "QUIT" \in Range(events)
               THEN /\ pygameUp' = FALSE
                    /\ pc' = "idle"
                    /\ frame' = None
                    /\ last' = [last EXCEPT !.outcome = "released"]
                    /\ Teardown
               ELSE UNCHANGED <<pc, frame, last, pygameUp, finishTime, null, cache,
                                preprocessed, outputOpen>>
    /\ UNCHANGED <<warnings, width, height, sonification, updateFactor, allowPause, start, it,
                   last_update_time, arraySnapshot, lenWarn, clock, calls, synthCount,
                   allocCount, paceCalls>>

----------------------------------------------------------------------------
(***************************************************************************)
(* The calls a caller can make, over the inputs of the model.              *)
(***************************************************************************)
PreprocessCall == \E a \in Arrays : preprocess(a)

UpdateCall == \E a \in Arrays, inv \in BOOLEAN, idl \in BOOLEAN : update(a, inv, idl)

ReleaseCall ==
    \E la \in {None} \cup {Some(a) : a \in Arrays}, u \in BOOLEAN, h \in BOOLEAN :
        release(la, u, h)

Next ==
    \/ \E d \in Delays : Advance(d)
    \/ \E ev \in EventTypes : Post(ev)
    \/ PreprocessCall
    \/ UpdateCall
    \/ \E b \in Keys, q \in BOOLEAN : pause(b, q)
    \/ PausePoll
    \/ ReleaseCall
    \/ HoldPoll

Spec == Init /\ [][Next]_vars

----------------------------------------------------------------------------
(***************************************************************************)
(* The helper methods called on their own, on sessions of several sizes:   *)
(* thickness, normalize and sinewave read the session and leave it as it   *)
(* is.  Durations are rationals <<numerator, denominator>> in seconds; on  *)
(* the durations and rates below the float product duration * sample_rate  *)
(* of the code is exact, and so is the float arithmetic of normalize on    *)
(* the lists and heights below.                                            *)
(***************************************************************************)
Sizes == {<<w, h, FALSE, 1, FALSE>> : w \in {5, 12, 800}, h \in {5, 13, 14, 20, 25}}
NormLists == {<<30>>, <<30, 30>>, <<3, 30>>, <<30, 3>>, <<0, 15, 30>>, <<3, 3, 30>>,
              <<29, 30>>}
Durations == {<<0, 1>>, <<1, 8192>>, <<1, 10>>, <<1, 16>>, <<3, 16>>, <<7, 16>>}
SampleRates == {22050, 44100}
Frequencies == {3, 440}

InitSizes == \E c \in Sizes : Construct(c)

Pure(record) ==
    /\ last' = record
    /\ UNCHANGED <<width, height, sonification, updateFactor, allowPause, null,
                   finishTime, start, it, last_update_time, arraySnapshot, lenWarn,
                   cache, preprocessed, outputOpen, pc, frame, clock, events,
                   pygameUp, calls, synthCount, allocCount, paceCalls, warnings>>

thicknessCall(arrayLen) ==
    Pure([Call("thickness", "ok") EXCEPT !.arg = <<arrayLen>>,
                                         !.ret = thickness(arrayLen)])

normalizeCall(list) ==
    LET r == normalize(list)
    IN Pure([Call("normalize", IF r.raised THEN "raised" ELSE "ok") EXCEPT
                 !.arg = list, !.ret = r.value])

NumSamples_Rounded(duration, sample_rate) == PyRound(duration[1] * sample_rate, duration[2])

\* line 386: num_samples = int(duration * sample_rate), int() truncating
NumSamples(duration, sample_rate) == (duration[1] * sample_rate) \div duration[2]

\* lines 387-418: the number of bytes sinewave returns, two per sample
\* (struct.pack('<h', ...)).  scipy's filtfilt (line 366) refuses a signal
\* no longer than its padding, 3 * max(len(a), len(b)) = 6 samples for the
\* first-order filter, with ValueError.
SinewaveBytes(duration, sample_rate) ==
    LET num_samples == NumSamples(duration, sample_rate)
    IN IF num_samples <= 6
       THEN [raised |-> TRUE, value |-> 0]
       ELSE [raised |-> FALSE, value |-> 2 * num_samples]

sinewaveCall(duration, frequency, sample_rate) ==
    LET r == SinewaveBytes(duration, sample_rate)
    IN Pure([Call("sinewave", IF r.raised THEN "raised" ELSE "ok") EXCEPT
                 !.arg = <<duration, frequency, sample_rate>>, !.ret = r.value])

Max2(a, b) == IF a >= b THEN a ELSE b

EnvelopeWindows_DecayUnclamped(num_samples, attack_n, decay_n, release_n) ==
    LET attack_samples == Min2(attack_n, num_samples)
        decay_samples == Min2(decay_n, num_samples)
        sustain_samples == Max2(0, num_samples - attack_samples - decay_samples - release_n)
        release_samples == Min2(release_n, num_samples - attack_samples - decay_samples
                                             - sustain_samples)
    IN [attack_samples |-> attack_samples, decay_samples |-> decay_samples,
        sustain_samples |-> sustain_samples, release_samples |-> release_samples]

\* lines 390-393: the four window lengths of the envelope, for
\* attack_n = int(attack * sample_rate), decay_n = int(decay * sample_rate)
\* and release_n = int(release * sample_rate)
EnvelopeWindows(num_samples, attack_n, decay_n, release_n) ==
    LET attack_samples == Min2(attack_n, num_samples)
        decay_samples == Min2(decay_n, num_samples - attack_samples)
        sustain_samples == Max2(0, num_samples - attack_samples - decay_samples - release_n)
        release_samples == Min2(release_n, num_samples - attack_samples - decay_samples
                                             - sustain_samples)
    IN [attack_samples |-> attack_samples, decay_samples |-> decay_samples,
        sustain_samples |-> sustain_samples, release_samples |-> release_samples]

\* sinewave up to line 393, for the sample counts its arguments come to
sinewaveEnvelope(num_samples, attack_n, decay_n, release_n) ==
    Pure([Call("envelope", "ok") EXCEPT
             !.arg = <<num_samples, attack_n, decay_n, release_n>>,
             !.ret = EnvelopeWindows(num_samples, attack_n, decay_n, release_n)])

NextPure ==
    \/ \E n \in 1..MaxArrayLen : thicknessCall(n)
    \/ \E l \in NormLists : normalizeCall(l)
    \/ \E d \in Durations, f \in Frequencies, sr \in SampleRates : sinewaveCall(d, f, sr)
    \/ \E n \in 0..MaxSamples, a \in 0..MaxSamples, d \in 0..MaxSamples,
          r \in 0..MaxSamples : sinewaveEnvelope(n, a, d, r)

SpecPure == InitSizes /\ [][NextPure]_vars

----------------------------------------------------------------------------
(***************************************************************************)
(* A caller that only animates: update with its default flags              *)
(* (invertArray = False, inverseDelta = False) in every call, as time      *)
(* passes.                                                                 *)
(***************************************************************************)
UpdatePlain == \E a \in Arrays : update(a, FALSE, FALSE)

NextPlain ==
    \/ \E d \in Delays : Advance(d)
    \/ UpdatePlain

SpecPlain == Init /\ [][NextPlain]_vars

----------------------------------------------------------------------------
(***************************************************************************)
(* The same session driven with the arrays at the edges of the input       *)
(* range: a zero value, and an array longer than the display is wide.      *)
(***************************************************************************)
EdgeArrays == {<<0>>, <<3>>, [i \in 1..13 |-> 3]}

PreprocessEdge == \E a \in EdgeArrays : preprocess(a)

UpdateEdge == \E a \in EdgeArrays, inv \in BOOLEAN, idl \in BOOLEAN : update(a, inv, idl)

ReleaseEdge ==
    \E la \in {None} \cup {Some(a) : a \in EdgeArrays}, u \in BOOLEAN, h \in BOOLEAN :
        release(la, u, h)

NextEdge ==
    \/ \E d \in Delays : Advance(d)
    \/ \E ev \in EventTypes : Post(ev)
    \/ PreprocessEdge
    \/ UpdateEdge
    \/ \E b \in Keys, q \in BOOLEAN : pause(b, q)
    \/ PausePoll
    \/ ReleaseEdge
    \/ HoldPoll

SpecEdge == Init /\ [][NextEdge]_vars

----------------------------------------------------------------------------
(***************************************************************************)
(* Lifecycle: release and the terminal state.                              *)
(***************************************************************************)

\* C1: once a release with hold has returned the session is terminal: the
\* released flag is set and stays set, finishTime is a number >= 0, and every
\* later update call, for any array, changes nothing (iteration counter,
\* snapshot, both caches, last-redraw tick), draws nothing, plays nothing and
\* does not raise.
C1_ReleasedIsTerminal ==
    [][ /\ (last'.outcome = "released" => null')
        /\ (null' => IsSome(finishTime') /\ Get(finishTime') >= 0)
        /\ (null => null')
        /\ ((null /\ UpdateCall) =>
               /\ UNCHANGED <<it, arraySnapshot, cache, preprocessed, last_update_time,
                              lenWarn, paceCalls, synthCount, allocCount, pc, frame,
                              events, finishTime, null>>
               /\ last'.outcome = "rejected"
               /\ last'.drawn = <<>> /\ last'.flashed = <<>> /\ last'.played = <<>>)
      ]_vars

\* C1 witness: an update refused after a release that drew a final snapshot.
C1_Witness ==
    /\ null /\ IsSome(finishTime)
    /\ calls.release = 1 /\ DOMAIN cache # {}
    /\ last.op = "update" /\ last.outcome = "rejected"

\* C2: a release call made once the session is released does nothing: no
\* final render, no hold loop, no teardown, finishTime and the released flag
\* unchanged, and it does not raise.
C2_SecondReleaseIsNoOp ==
    [][ (null /\ ReleaseCall) =>
           /\ UNCHANGED <<finishTime, null, cache, preprocessed, synthCount, allocCount,
                          pc, frame>>
           /\ last'.drawn = <<>> /\ last'.played = <<>>
           /\ last'.outcome # "raised"
      ]_vars

\* C3: in the terminal state no owned resource is still held: the audio
\* stream is closed and both caches are empty.
C3_ResourcesReleased ==
    null => (~outputOpen /\ DOMAIN cache = {} /\ DOMAIN preprocessed = {})

\* C4: a release that returns without holding (hold = false) leaves the
\* session terminal too: released flag set, finishTime stored.
C4_TerminalWithoutHold ==
    (last.op = "release" /\ last.outcome = "returned") => (null /\ IsSome(finishTime))

----------------------------------------------------------------------------
(***************************************************************************)
(* The redraw throttle and the iteration counter.                          *)
(***************************************************************************)

\* C5 as written: once a redraw has been executed, an update call on a live
\* session is skipped if and only if fewer than 100 ms have passed since the
\* last executed redraw; at exactly 100 ms it is rendered.
C5_RedrawAtHundred ==
    [][ (~null /\ UpdateCall /\ last_update_time > 0) =>
           (last'.outcome = "throttled" <=> clock - last_update_time < ThrottleMs)
      ]_vars

\* C5 amended: an update call on a live session is skipped if and only if at
\* most 100 ms have passed since last_update_time (the tick of the last
\* update that entered the redraw path, 0 at construction); a skipped call
\* draws nothing; an update that enters the redraw path stamps its tick, so
\* two executed redraws are more than 100 ms apart.
C5_RedrawAfterHundred ==
    [][ /\ (~null /\ UpdateCall) =>
             /\ (last'.outcome = "throttled" <=> clock - last_update_time <= ThrottleMs)
             /\ (last'.outcome = "throttled" =>
                    UNCHANGED <<last_update_time, cache, preprocessed, paceCalls, events>>)
             /\ (last'.outcome \in {"redraw", "exit", "paused"} =>
                    last_update_time' = clock /\ last'.at = clock)
        /\ (last_update_time' # last_update_time =>
               last_update_time' - last_update_time > ThrottleMs)
        /\ (paceCalls' # paceCalls =>
               last'.outcome = "redraw" /\ last'.at = last_update_time')
      ]_vars

\* C5 witness: an update skipped exactly 100 ms after an executed redraw.
C5_Witness ==
    /\ last.op = "update" /\ last.outcome = "throttled"
    /\ paceCalls = 1 /\ last_update_time > 0
    /\ last.at - last_update_time = ThrottleMs

\* C6: the first update call of a fresh session that returns has executed a
\* redraw: the surface cache is non-empty and the frame pacer ran once.
C6_FirstUpdateRedraws ==
    (TotalCalls = 1 /\ last.op = "update" /\ last.outcome \in {"throttled", "redraw"})
        => (DOMAIN cache # {} /\ paceCalls = 1)

\* C7: on a live session the iteration counter is updateFactor times the
\* number of update calls made so far, whether they were rendered, skipped,
\* paused or raised; preprocess, pause and the passing of time leave it.
C7_IterationCounter ==
    ~null => it = updateFactor * calls.update

\* C7 witness: two update calls with updateFactor 2, one rendered and one
\* skipped.
C7_Witness ==
    /\ ~null /\ calls.update = 2 /\ updateFactor = 2 /\ it = 4
    /\ paceCalls = 1 /\ last.outcome = "throttled"

----------------------------------------------------------------------------
(***************************************************************************)
(* Pause and quit.                                                         *)
(***************************************************************************)

\* C8 as written: whatever allowQuit is, a quit signal polled while paused
\* terminates the process.
C8_QuitAlwaysTerminates ==
    [][ (pc = "pause" /\ pygameUp /\ events' = <<>> /\ "QUIT" \in Range(events))
           => pc' = "exited"
      ]_vars

\* C8 amended: while pygame is up, pause leaves its loop only at a poll; it
\* does not return before a press of the bound key is polled; it returns at
\* the end of the first polled batch holding one, unless allowQuit is set and
\* that batch holds a quit signal too, which terminates the process at once;
\* with allowQuit unset a quit signal is dropped and pause keeps waiting.
C8_PauseUntilBoundKey ==
    [][ (pc = "pause" /\ pygameUp) =>
           LET f == Get(frame)
               quit == f.allowQuit /\ "QUIT" \in Range(events)
               key == f.bind \in Range(events)
               polled == events # <<>> /\ events' = <<>>
               left == pc' # "pause" \/ frame' # frame
           IN /\ (left => polled)
              /\ (left /\ pc' # "exited" => key /\ ~quit)
              /\ (pc' = "exited" =>
                     quit \/ (key /\ f.from = "update" /\ "QUIT" \in Range(f.rest)))
              /\ (polled /\ quit => pc' = "exited")
              /\ (polled /\ ~quit /\ key =>
                     left /\ (f.from = "caller" =>
                                pc' = "idle" /\ last'.op = "pause" /\ last'.outcome = "returned"))
              /\ (polled /\ ~quit /\ ~key => ~left)
      ]_vars

\* C8 witness: a pause called by the caller has returned, pygame still up.
C8_Witness ==
    /\ last.op = "pause" /\ last.outcome = "returned" /\ pc = "idle" /\ pygameUp

\* C9 as written: an update call on a live session made with a quit signal
\* pending terminates the process in that call, throttled or not.
C9_QuitEndsAnyUpdate ==
    [][ (~null /\ UpdateCall /\ "QUIT" \in Range(events)) => pc' = "exited" ]_vars

\* C9 amended: an update call on a live session made with a quit signal
\* pending draws no bar and plays no tone.  If it is throttled it polls
\* nothing and leaves the quit pending.  Otherwise it raises while preparing
\* its array (before polling), or terminates the process, or - when a space
\* key press stands before the quit and allowPause is set - pauses first with
\* the quit still to be walked, and then ends in process exit when the pause
\* returns.
C9_QuitEndsUnthrottledUpdate ==
    [][ /\ (~null /\ UpdateCall /\ "QUIT" \in Range(events)) =>
             /\ UNCHANGED <<cache, preprocessed, paceCalls>>
             /\ last'.drawn = <<>> /\ last'.flashed = <<>> /\ last'.played = <<>>
             /\ IF clock - last_update_time <= ThrottleMs
                THEN last'.outcome = "throttled" /\ pc' = "idle" /\ events' = events
                ELSE /\ last'.outcome \in {"raised", "exit", "paused"}
                     /\ (last'.outcome = "raised" => events' = events /\ pc' = "idle")
                     /\ (last'.outcome = "exit" => pc' = "exited")
                     /\ (last'.outcome = "paused" =>
                            /\ pc' = "pause" /\ allowPause
                            /\ "QUIT" \in Range(Get(frame').rest))
        /\ (pc = "pause" /\ Get(frame).from = "update"
               /\ "QUIT" \in Range(Get(frame).rest)) =>
             /\ UNCHANGED <<cache, preprocessed, paceCalls>>
             /\ pc' \in {"pause", "exited"}
             /\ (pc' = "pause" => "QUIT" \in Range(Get(frame').rest))
      ]_vars

\* C9 witness: an update has terminated the process.
C9_Witness ==
    /\ pc = "exited" /\ last.op = "update" /\ last.outcome = "exit"
    /\ paceCalls = 0 /\ last.at > ThrottleMs

----------------------------------------------------------------------------
(***************************************************************************)
(* The caches.                                                             *)
(***************************************************************************)

\* C10: no value is synthesized twice and no value's surface is allocated
\* twice.
C10_OncePerValue ==
    /\ \A v \in DOMAIN synthCount : synthCount[v] <= 1
    /\ \A v \in DOMAIN allocCount : allocCount[v] <= 1
----------------------------------------------------------------------------
(***************************************************************************)
(* C11 (as stated): every preprocess call on a live session returns a      *)
(* mapping whose keys are exactly the distinct values of its argument, and *)
(* writes nothing to the audio stream.                                     *)
(***************************************************************************)
C11_ReturnsOnlyArgument ==
    [][\A a \in Arrays :
          (~null /\ preprocess(a)) =>
              /\ DOMAIN last'.ret = Range(a)
              /\ last'.played = <<>>]_vars

(***************************************************************************)
(* C11 (amended): every preprocess call returns the whole waveform cache:  *)
(* its keys are the values of the argument together with every key cached  *)
(* before the call, the entries of keys not in the argument are the ones   *)
(* cached before, the entries of the argument's values are waveforms made  *)
(* with the session's envelope, and nothing is written to the audio stream.*)
(***************************************************************************)
C11_ReturnsWholeCache ==
    [][\A a \in Arrays :
          preprocess(a) =>
              /\ last'.ret = preprocessed'
              /\ DOMAIN last'.ret = (DOMAIN preprocessed) \cup Range(a)
              /\ \A k \in (DOMAIN preprocessed) \ Range(a) :
                     last'.ret[k] = preprocessed[k]
              /\ \A k \in Range(a) : last'.ret[k] = sinewave(k, TRUE)
              /\ last'.played = <<>>
              /\ UNCHANGED <<outputOpen, cache, paceCalls>>]_vars

\* a live session's preprocess call has returned a key its argument lacks
C11_Witness ==
    /\ ~null
    /\ last.op = "preprocess"
    /\ last.arg # <<>>
    /\ DOMAIN last.ret # Range(last.arg)
    /\ Range(last.arg) \subseteq DOMAIN last.ret

(***************************************************************************)
(* C12: once the session is released, preprocess adds or replaces no       *)
(* waveform-cache entry and synthesizes nothing, and pause returns at once *)
(* without entering its polling loop.                                      *)
(***************************************************************************)
C12_ReleasedRejectsPreprocessAndPause ==
    [][null =>
          /\ PreprocessCall => UNCHANGED <<preprocessed, synthCount>>
          /\ (\E b \in Keys, q \in BOOLEAN : pause(b, q)) => pc' = "idle"]_vars

(***************************************************************************)
(* C13: no sequence of preprocess, update and release calls on arrays that *)
(* contain 0 stores a waveform under key 0 or writes a waveform of         *)
(* frequency 0 to the audio stream (synthesis of frequency 0 is rejected). *)
(***************************************************************************)
C13_NoWaveformForZero ==
    /\ 0 \notin DOMAIN preprocessed
    /\ \A i \in 1..Len(last.played) : last.played[i].frequency # 0

(***************************************************************************)
(* C14: for every width >= 10 and arrayLen >= 1, thickness(arrayLen) is    *)
(* the floor of width / arrayLen: the largest integer t with               *)
(* t * arrayLen <= width; thickness(4) is 200 on a display 800 wide.       *)
(***************************************************************************)
C14_ThicknessIsFloor ==
    last.op = "thickness" =>
        LET arrayLen == last.arg[1]
        IN /\ last.ret * arrayLen <= width
           /\ width < (last.ret + 1) * arrayLen
           /\ (width = 800 /\ arrayLen = 4) => last.ret = 200

\* thickness was asked for a length that does not divide the width
C14_Witness ==
    /\ last.op = "thickness"
    /\ width = 800
    /\ last.arg = <<7>>
    /\ last.ret = 114

(***************************************************************************)
(* C15: for every height >= 10 and every non-empty list of non-negative    *)
(* integers whose maximum exceeds height, normalize returns without error  *)
(* a list of the same length with every element in                         *)
(* [height / 10, height - 12].                                             *)
(***************************************************************************)
C15_NormalizeInRange ==
    (last.op = "normalize" /\ SeqMax(last.arg) > height) =>
        /\ last.outcome = "ok"
        /\ Len(last.ret) = Len(last.arg)
        /\ \A i \in 1..Len(last.ret) :
              /\ NormFloorDiv * last.ret[i] >= height
              /\ last.ret[i] <= height - NormCeilSub

(***************************************************************************)
(* C16: for every height >= 10 and every list whose maximum exceeds        *)
(* height, the list normalize returns keeps the relative order of the      *)
(* values: values[i] <= values[j] implies normalized[i] <= normalized[j].  *)
(***************************************************************************)
C16_NormalizeMonotone ==
    (last.op = "normalize" /\ SeqMax(last.arg) > height /\ last.outcome = "ok") =>
        \A i, j \in 1..Len(last.arg) :
            last.arg[i] <= last.arg[j] => last.ret[i] <= last.ret[j]

(***************************************************************************)
(* C17 (as stated): for every duration >= 0 and positive frequency and     *)
(* sample rate, sinewave returns a buffer of exactly                       *)
(* 2 * round(duration * sampleRate) bytes.                                 *)
(***************************************************************************)
C17_LengthIsRounded ==
    last.op = "sinewave" =>
        /\ last.outcome = "ok"
        /\ last.ret = 2 * PyRound(last.arg[1][1] * last.arg[3], last.arg[1][2])

(***************************************************************************)
(* C17 (amended): a buffer sinewave returns holds two bytes for each of    *)
(* n samples, n the product duration * sampleRate truncated to an integer  *)
(* (n <= duration * sampleRate < n + 1), and is not empty; sinewave        *)
(* returns no buffer only when that product is below 7.                    *)
(***************************************************************************)
C17_LengthIsTruncated ==
    last.op = "sinewave" =>
        LET duration == last.arg[1]
            product == duration[1] * last.arg[3]    \* times duration[2]
            n == last.ret \div 2
        IN /\ last.outcome = "ok" =>
                 /\ last.ret = 2 * n
                 /\ n * duration[2] <= product
                 /\ product < (n + 1) * duration[2]
                 /\ last.ret > 0
           /\ last.outcome # "ok" => product < 7 * duration[2]

\* a duration whose sample count is not whole: 3/16 s at 44100 Hz, 8268.75
C17_Witness ==
    /\ last.op = "sinewave"
    /\ last.outcome = "ok"
    /\ last.arg[1] = <<3, 16>>
    /\ last.arg[3] = 44100
    /\ last.ret = 16536

C19_SizeClamped ==
    /\ width >= MinSize
    /\ height >= MinSize
    /\ last.op = "init" =>
          /\ width = (IF last.arg[1] > MinSize THEN last.arg[1] ELSE MinSize)
          /\ height = (IF last.arg[2] > MinSize THEN last.arg[2] ELSE MinSize)

\* a session asked for with 5 x 5 has been built 10 x 10 and has been used
C19_Witness ==
    /\ width = MinSize
    /\ height = MinSize
    /\ ~sonification
    /\ last.op = "update"
    /\ last.outcome = "redraw"

(***************************************************************************)
(* C20: the first executed redraw of a session, and the first executed     *)
(* redraw after the caller passes an array of another length than the one  *)
(* last seen, reports no changed position: nothing is highlighted and no   *)
(* tone is played, whatever the array, normalized or inverted.             *)
(***************************************************************************)
C20_NewArrayIsItsOwnBaseline ==
    [][\A a \in Arrays, inv \in BOOLEAN, idl \in BOOLEAN :
          (/\ update(a, inv, idl)
           /\ last'.outcome = "redraw"
           /\ \/ paceCalls = 0
              \/ arraySnapshot = None
              \/ Len(Get(arraySnapshot)) # Len(a))
          => (last'.flashed = <<>> /\ last'.played = <<>>)]_vars

(***************************************************************************)
(* C21: in every executed redraw the positions highlighted (and, with      *)
(* sonification, sounded) are exactly the positions i at which the         *)
(* baseline and the array drawn differ, each once, also when several of    *)
(* them hold the same value.                                               *)
(***************************************************************************)
C21_FlashesExactlyTheChanged ==
    [][\A a \in Arrays, inv \in BOOLEAN, idl \in BOOLEAN :
          (update(a, inv, idl) /\ last'.outcome = "redraw") =>
              LET snap == IF arraySnapshot = None THEN a ELSE Get(arraySnapshot)
                  d == last'.drawn
                  changed == {i \in 1..Len(d) : d[i].e # snap[i]}
              IN /\ Len(last'.flashed) = Cardinality(changed)
                 /\ \A i \in changed :
                       \E j \in 1..Len(last'.flashed) : last'.flashed[j].pos = d[i].pos
                 /\ sonification => Len(last'.played) = Cardinality(changed)]_vars

(***************************************************************************)
(* C22: before release, the waveform cached for a value and every waveform *)
(* played is the one synthesized with the session's configured duration,   *)
(* envelope, sample rate and amplitude, whichever operation made the entry *)
(* (so sessions configured alike play the same bytes for a value).         *)
(***************************************************************************)
C22_WaveformsUseSessionConfig ==
    ~null =>
        /\ \A v \in DOMAIN preprocessed : preprocessed[v] = sinewave(v, TRUE)
        /\ \A i \in 1..Len(last.played) :
              last.played[i] = sinewave(last.played[i].frequency, TRUE)

(***************************************************************************)
(* C23: for all non-negative attack, decay and release sample counts and   *)
(* every total N >= 0, the attack, decay, sustain and release windows are  *)
(* each >= 0, attack + decay + release <= N, the four sum to N, and they   *)
(* are the result of clamping attack against N, decay against what is      *)
(* left, release against what is left then, and giving sustain the rest.   *)
(***************************************************************************)
C23_EnvelopeFitsTotal ==
    last.op = "envelope" =>
        LET N == last.arg[1]
            w == last.ret
            a == Min2(last.arg[2], N)
            d == Min2(last.arg[3], N - a)
            r == Min2(last.arg[4], N - a - d)
        IN /\ w.attack_samples >= 0 /\ w.decay_samples >= 0
           /\ w.sustain_samples >= 0 /\ w.release_samples >= 0
           /\ w.attack_samples + w.decay_samples + w.release_samples <= N
           /\ w.attack_samples + w.decay_samples + w.sustain_samples
                  + w.release_samples = N
           /\ w.attack_samples = a
           /\ w.decay_samples = d
           /\ w.release_samples = r
           /\ w.sustain_samples = N - a - d - r

\* three samples, attack 1, decay 1, release 2: the release is cut to the one
\* sample left and no sample is left to sustain
C23_Witness ==
    /\ last.op = "envelope"
    /\ last.arg = <<3, 1, 1, 2>>
    /\ last.ret.release_samples = 1
    /\ last.ret.sustain_samples = 0

(***************************************************************************)
(* C24 (as stated): release with a final array and the final render asked  *)
(* for draws every index in ascending order, writing each element's tone   *)
(* once when sonification is on, whatever the time since the last redraw,  *)
(* and then draws every index again in descending order.                   *)
(***************************************************************************)
C24_ForwardThenBackward ==
    [][\A la \in Arrays, h \in BOOLEAN :
          (release(Some(la), TRUE, h) /\ la # <<>> /\ pygameUp) =>
              LET n == Len(la)
                  d == last'.drawn
              IN /\ last'.outcome # "raised"
                 /\ Len(d) = 2 * n
                 /\ \A i \in 1..n :
                       /\ d[i].e = la[i]
                       /\ d[i].pos = <<(i - 1) * (width \div n), height - la[i]>>
                       /\ d[n + i].e = la[n + 1 - i]
                       /\ d[n + i].pos = d[n + 1 - i].pos
                 /\ Len(last'.played) = (IF sonification THEN n ELSE 0)]_vars

(***************************************************************************)
(* C24 (amended): such a release raises when the array is empty or pygame  *)
(* has been shut down; otherwise, whatever the time since the last redraw, *)
(* it draws every index in ascending order, writing each element's tone    *)
(* once in that order when sonification is on, and then draws every index  *)
(* a second time in the same ascending order; the throttle clock is left   *)
(* as it was.                                                              *)
(***************************************************************************)
C24_ForwardTwice ==
    [][\A la \in Arrays, h \in BOOLEAN :
          release(Some(la), TRUE, h) =>
              LET n == Len(la)
                  d == last'.drawn
              IN IF la = <<>> \/ ~pygameUp
                 THEN last'.outcome = "raised"
                 ELSE /\ last'.outcome # "raised"
                      /\ Len(d) = 2 * n
                      /\ \A i \in 1..n :
                            /\ d[i].e = la[i]
                            /\ d[i].pos = <<(i - 1) * (width \div n), height - la[i]>>
                            /\ d[n + i].e = la[i]
                            /\ d[n + i].pos = d[i].pos
                      /\ Len(last'.played) = (IF sonification THEN n ELSE 0)
                      /\ \A i \in 1..Len(last'.played) :
                            last'.played[i].frequency = la[i]
                      /\ UNCHANGED last_update_time]_vars

\* a final render of two different values made at tick 0, inside the
\* throttle interval, has drawn 3, 25 and then 3, 25 again
C24_Witness ==
    /\ last.op = "release"
    /\ last.outcome # "raised"
    /\ clock = 0
    /\ Len(last.drawn) = 4
    /\ last.drawn[3].e = 3
    /\ last.drawn[4].e = 25
    /\ Len(last.played) = 2

(***************************************************************************)
(* C25: every surface drawn for a value in an update redraw or in the      *)
(* final render is as wide as the bar thickness of the array being drawn,  *)
(* also when that array's length is not the one in use when the value's    *)
(* surface was cached.                                                     *)
(***************************************************************************)
C25_SurfaceHasCurrentThickness ==
    [][/\ \A a \in Arrays, inv \in BOOLEAN, idl \in BOOLEAN :
             (update(a, inv, idl) /\ last'.outcome = "redraw") =>
                 \A i \in 1..Len(last'.drawn) : last'.drawn[i].t = width \div Len(a)
       /\ \A la \in Arrays, h \in BOOLEAN :
             (release(Some(la), TRUE, h) /\ last'.outcome # "raised") =>
                 \A i \in 1..Len(last'.drawn) : last'.drawn[i].t = width \div Len(la)]_vars

(***************************************************************************)
(* C26: in an executed redraw the highlight of a changed element of value  *)
(* v at position p, and the bar drawn after it to restore the colour, are  *)
(* drawn at p with the surface cached for v, not with the surface of the   *)
(* element the render loop visited last.                                   *)
(***************************************************************************)
C26_HighlightUsesOwnSurface ==
    last.op = "update" =>
        \A i \in 1..Len(last.flashed) :
            /\ last.flashed[i].bar = last.flashed[i].e
            /\ \E j \in 1..Len(last.drawn) :
                  /\ last.drawn[j].e = last.flashed[i].e
                  /\ last.drawn[j].pos = last.flashed[i].pos

(***************************************************************************)
(* C27: when update is called with the array and flags of the update call  *)
(* just before it, an executed redraw reports no changed position, also    *)
(* when that earlier call was throttled or the array is normalized.  Under *)
(* SpecPlain every call has the same flags; after a throttled call the     *)
(* baseline is that call's array.                                          *)
(***************************************************************************)
C27_RepeatedArrayReportsNothing ==
    [][\A a \in Arrays :
          (/\ last.op = "update"
           /\ last.outcome = "throttled"
           /\ arraySnapshot = Some(a)
           /\ update(a, FALSE, FALSE)
           /\ last'.outcome = "redraw")
          => (last'.flashed = <<>> /\ last'.played = <<>>)]_vars

(***************************************************************************)
(* C28: in a session built with sonification off no call of update,        *)
(* preprocess, pause or release writes to the audio stream, and only       *)
(* preprocess adds to the waveform cache or synthesizes a waveform.        *)
(***************************************************************************)
C28_SilentWithoutSonification ==
    /\ [](~sonification => last.played = <<>>)
    /\ [][~sonification =>
             /\ preprocessed' # preprocessed => PreprocessCall
             /\ synthCount' # synthCount => PreprocessCall]_vars

\* a redraw of a session without sound has highlighted a change and the
\* waveform cache is still empty
C28_Witness ==
    /\ ~sonification
    /\ last.op = "update"
    /\ last.outcome = "redraw"
    /\ last.flashed # <<>>
    /\ preprocessed = EmptyMap

====
